---- MODULE Spec2Model ----
(***************************************************************************)
(* ghmcp: a server that indexes local Git repositories.                    *)
(*                                                                         *)
(*   utility.get_repo            the probe of one candidate path           *)
(*   server.GitHubRepoIndexer    the index built from a list of candidates *)
(*   server.MCPGitHubServer      the server object that owns an index      *)
(*   server.run_stdio_server     create a server and run it on stdio       *)
(*   main.start_server / stop_server / _server_instance                    *)
(*                                                                         *)
(* The filesystem is a fixed table with one directory entry of every kind  *)
(* the probe distinguishes; the operations draw their arguments from the   *)
(* candidate paths below.                                                  *)
(***************************************************************************)
EXTENDS Integers, Sequences, FiniteSets, TLC

VARIABLES servers, server_instance, handlers, last, held, proc, race

vars == <<servers, server_instance, handlers, last, held, proc, race>>

(***************************************************************************)
(* Bounds of the model.                                                    *)
(***************************************************************************)
\* longest list of candidate paths handed to a constructor
MaxPaths == 3
\* number of MCPGitHubServer objects that can be alive in one run
MaxServers == 2

\* the longest path list start_server is called with
MaxStartPaths == 2

(***************************************************************************)
(* Candidate paths.  A candidate is what a caller can put in a path list:  *)
(* a string (absolute or relative, with or without a trailing separator),  *)
(* None, or a value of another type.  A string is kept as its segments.    *)
(***************************************************************************)
Cwd == <<"r">>

StrPath(abs, segs, trail) ==
    [t |-> "str", abs |-> abs, segs |-> segs, trail |-> trail]

PNone    == [t |-> "NoneType", abs |-> FALSE, segs |-> <<>>, trail |-> FALSE]
PInt     == [t |-> "int", abs |-> FALSE, segs |-> <<>>, trail |-> FALSE]
PEmpty   == StrPath(FALSE, <<>>, FALSE)                \* ""
PA       == StrPath(TRUE, <<"r", "a">>, FALSE)         \* "/r/a"
PASlash  == StrPath(TRUE, <<"r", "a">>, TRUE)          \* "/r/a/"
PARel    == StrPath(FALSE, <<"a">>, FALSE)             \* "a"
PC       == StrPath(TRUE, <<"r", "c">>, FALSE)         \* "/r/c"
PBare    == StrPath(TRUE, <<"r", "bare">>, FALSE)      \* "/r/bare"
PDet     == StrPath(TRUE, <<"r", "det">>, FALSE)       \* "/r/det"
PD       == StrPath(TRUE, <<"r", "d">>, FALSE)         \* "/r/d"
PPerm    == StrPath(TRUE, <<"r", "p">>, FALSE)         \* "/r/p"
PCorrupt == StrPath(TRUE, <<"r", "x">>, FALSE)         \* "/r/x"
PVanish  == StrPath(TRUE, <<"r", "v">>, FALSE)         \* "/r/v"
PFile    == StrPath(TRUE, <<"r", "f">>, FALSE)         \* "/r/f"
PMissing == StrPath(TRUE, <<"r", "m">>, FALSE)         \* "/r/m"
PLink    == StrPath(TRUE, <<"r", "link">>, FALSE)      \* "/r/link" -> "/r/a"
PFresh   == StrPath(TRUE, <<"r", "new">>, FALSE)       \* "/r/new"
PNoRefs  == StrPath(TRUE, <<"r", "n">>, FALSE)         \* "/r/n"

\* every candidate the probe is tried on
Candidates ==
    {PNone, PInt, PEmpty, PA, PASlash, PARel, PC, PBare, PDet, PD, PPerm,
     PCorrupt, PVanish, PFile, PMissing, PLink, PFresh, PNoRefs}

\* the candidates that go into the path list of a server: two
\* repositories, one of them also with a trailing separator and through a
\* symbolic link, a directory that is none, and None
ServerCandidates == {PA, PC, PD, PNone, PASlash, PLink}

(***************************************************************************)
(* The filesystem: what is found at an absolute path.                      *)
(*   repo      a working tree with a branch and commits                    *)
(*   bare      a bare repository                                           *)
(*   detached  a repository with a detached HEAD and no commits reachable  *)
(*   fresh     a repository without a commit                               *)
(*   norefs    a repository whose remotes and branches cannot be read      *)
(*   dir       a directory without repository metadata                     *)
(*   noperm    a directory whose metadata cannot be read                   *)
(*   corrupt   a directory whose metadata makes the parser fail            *)
(*   vanish    a directory that is gone when the repository is opened      *)
(*   file      a regular file                                              *)
(*   missing   nothing                                                     *)
(***************************************************************************)
FsKind(abs) ==
    CASE abs = <<>>            -> "dir"
      [] abs = <<"r">>         -> "dir"
      [] abs = <<"r", "a">>    -> "repo"
      [] abs = <<"r", "c">>    -> "repo"
      [] abs = <<"r", "bare">> -> "bare"
      [] abs = <<"r", "det">>  -> "detached"
      [] abs = <<"r", "d">>    -> "dir"
      [] abs = <<"r", "p">>    -> "noperm"
      [] abs = <<"r", "x">>    -> "corrupt"
      [] abs = <<"r", "v">>    -> "vanish"
      [] abs = <<"r", "f">>    -> "file"
      [] abs = <<"r", "link">> -> "repo"
      [] abs = <<"r", "new">>  -> "fresh"
      [] abs = <<"r", "n">>    -> "norefs"
      [] OTHER                 -> "missing"

\* os.path.abspath: joins a relative path to the working directory and
\* normalises it, which drops a trailing separator
abspath(p) == IF p.abs THEN p.segs ELSE Cwd \o p.segs

\* the canonical path: symbolic links resolved (/r/link is a link to /r/a)
realpath(abs) == IF abs = <<"r", "link">> THEN <<"r", "a">> ELSE abs

\* os.path.exists / os.path.isdir on an absolute path
exists(abs) == FsKind(abs) # "missing"
isdir(abs) == FsKind(abs) \notin {"missing", "file"}

(***************************************************************************)
(* git.Repo(path): the handle, or the exception the open raises.           *)
(***************************************************************************)
NoneRepo == [none |-> TRUE, working_dir |-> <<>>, bare |-> FALSE, heads |-> <<>>]

RepoOfKind(k, abs) ==
    CASE k \in {"repo", "bare"} ->
           [exc |-> "none",
            repo |-> [none |-> FALSE, working_dir |-> abs, bare |-> (k = "bare"),
                      heads |-> <<"main">>]]
      [] k \in {"detached", "fresh", "norefs"} ->
           [exc |-> "none",
            repo |-> [none |-> FALSE, working_dir |-> abs, bare |-> FALSE,
                      heads |-> <<>>]]
      [] k = "dir"     -> [exc |-> "InvalidGitRepositoryError", repo |-> NoneRepo]
      [] k = "noperm"  -> [exc |-> "PermissionError", repo |-> NoneRepo]
      [] k = "corrupt" -> [exc |-> "GitCommandError", repo |-> NoneRepo]
      [] k = "file"    -> [exc |-> "InvalidGitRepositoryError", repo |-> NoneRepo]
      [] OTHER         -> [exc |-> "NoSuchPathError", repo |-> NoneRepo]

Repo(abs) == RepoOfKind(FsKind(abs), abs)

\* the diagnostic reads of get_repo and the exception each raises, if any
DiagSteps == <<"active_branch", "remotes", "heads", "iter_commits">>

RepoKinds == {"repo", "bare", "detached", "fresh", "norefs"}

\* a read of a handle whose repository is no longer there fails
DiagOfKind(k, step) ==
    CASE k = "detached" /\ step = "active_branch" -> "TypeError"
      [] k = "detached" /\ step = "iter_commits"  -> "ValueError"
      [] k = "fresh" /\ step = "iter_commits"     -> "ValueError"
      [] k = "norefs" /\ step = "remotes"         -> "GitCommandError"
      [] k = "norefs" /\ step = "heads"           -> "GitCommandError"
      [] k \notin RepoKinds /\ step = "active_branch" -> "FileNotFoundError"
      [] k \notin RepoKinds /\ step = "iter_commits"  -> "GitCommandError"
      [] OTHER -> "none"

Diag(abs, step) == DiagOfKind(FsKind(abs), step)

\* the classes an `except Exception` clause catches
ExceptionClasses ==
    {"InvalidGitRepositoryError", "NoSuchPathError", "PermissionError",
     "GitCommandError", "TypeError", "ValueError", "RuntimeError",
     "AttributeError", "FileNotFoundError", "Exception"}

\* try: <step> except Exception: log -- what still propagates
TryExceptException(exc) == IF exc \in ExceptionClasses THEN "none" ELSE exc

RECURSIVE DiagPass(_, _)
\* (C20) the diagnostic reads without their own try blocks: the first
\* exception one of them raises
DiagPassUnguarded(abs, i) ==
    IF \A k \in i..Len(DiagSteps) : Diag(abs, DiagSteps[k]) = "none"
    THEN "none"
    ELSE Diag(abs, DiagSteps[CHOOSE k \in i..Len(DiagSteps) :
                                /\ Diag(abs, DiagSteps[k]) # "none"
                                /\ \A j \in i..(k - 1) :
                                       Diag(abs, DiagSteps[j]) = "none"])

\* the four diagnostic blocks in order: the first exception that escapes one
DiagPass(abs, i) ==
    IF i > Len(DiagSteps) THEN "none"
    ELSE LET e == TryExceptException(Diag(abs, DiagSteps[i])) IN
         IF e # "none" THEN e ELSE DiagPass(abs, i + 1)

\* (C3) the try block closed without its last clause, `except Exception`
OuterExceptNamedOnly(exc) ==
    IF exc \in {"InvalidGitRepositoryError", "NoSuchPathError", "PermissionError"}
    THEN "none"
    ELSE exc

\* the except clauses that close get_repo's try block
OuterExcept(exc) ==
    IF exc \in {"InvalidGitRepositoryError", "NoSuchPathError", "PermissionError"}
    THEN "none"
    ELSE TryExceptException(exc)

Returned(r) == [raised |-> "none", ret |-> r]
Raised(e) == [raised |-> e, ret |-> NoneRepo]

\* Python truthiness of a candidate: None and "" are falsy
Falsy(path) == path.t = "NoneType" \/ (path.t = "str" /\ ~path.abs /\ path.segs = <<>>)

get_repo(path) ==
    IF Falsy(path) THEN Returned(NoneRepo)
    ELSE IF path.t # "str" THEN Returned(NoneRepo)
    ELSE LET abs_path == abspath(path) IN
         IF ~exists(abs_path) THEN Returned(NoneRepo)
         ELSE IF ~isdir(abs_path) THEN Returned(NoneRepo)
         ELSE LET opened == Repo(abs_path)
                  inTry == IF opened.exc # "none" THEN opened.exc
                           ELSE DiagPass(abs_path, 1)
              IN  IF inTry = "none" THEN Returned(opened.repo)
                  ELSE IF OuterExcept(inTry) = "none" THEN Returned(NoneRepo)
                  ELSE Raised(inTry)

(***************************************************************************)
(* GitHubRepoIndexer.__init__                                              *)
(***************************************************************************)
\* os.path.exists(path) on the candidate as given: None is not a path
os_path_exists(path) ==
    CASE path.t = "NoneType" -> [exc |-> "TypeError", val |-> FALSE]
      [] path.t = "int"      -> [exc |-> "none", val |-> FALSE]
      [] Falsy(path)         -> [exc |-> "none", val |-> FALSE]
      [] OTHER               -> [exc |-> "none", val |-> exists(abspath(path))]

os_path_isdir(path) == path.t = "str" /\ ~Falsy(path) /\ isdir(abspath(path))

\* (C1) the handle is put in front of the list instead of at its end
RetainInFront(repos, repo) == <<repo>> \o repos

\* (C2) a handle equal to one already retained is not retained again
RetainOnce(repos, repo) ==
    IF \E k \in 1..Len(repos) : repos[k] = repo THEN repos
    ELSE Append(repos, repo)

\* self.repos.append(repo)
Retain(repos, repo) == Append(repos, repo)

\* the value of an expression whose local names are bound once, as the
\* variables of a singleton set: Only({e(x) : x \in {v}}) is e(v)
Only(S) == CHOOSE x \in S : TRUE

\* one call of the loop body, as it is seen from outside: the function
\* and the argument it got
Call(f, arg) == [f |-> f, arg |-> arg]

RECURSIVE IndexLoop(_, _, _, _)
\* the for loop over repo_paths, from entry i on, with self.repos so far
\* and the calls made so far
IndexLoop(repo_paths, i, repos, trace) ==
    IF i > Len(repo_paths)
    THEN [raised |-> "none", repos |-> repos, trace |-> trace]
    ELSE Only({
        IF ex.exc # "none"
        THEN [raised |-> ex.exc, repos |-> repos, trace |-> t1]
        ELSE IF ~ex.val THEN IndexLoop(repo_paths, i + 1, repos, t1)
        ELSE IF ~os_path_isdir(path)
        THEN IndexLoop(repo_paths, i + 1, repos, t2)
        ELSE Only({
            IF r.raised # "none"
            THEN [raised |-> r.raised, repos |-> repos, trace |-> t3]
            ELSE IF ~r.ret.none
                 THEN IndexLoop(repo_paths, i + 1, Retain(repos, r.ret), t3)
                 ELSE IndexLoop(repo_paths, i + 1, repos, t3) :
            r \in {get_repo(path)}}) :
        path \in {repo_paths[i]}, ex \in {os_path_exists(repo_paths[i])},
        t1 \in {Append(trace, Call("os.path.exists", repo_paths[i]))},
        t2 \in {trace \o <<Call("os.path.exists", repo_paths[i]),
                           Call("os.path.isdir", repo_paths[i])>>},
        t3 \in {trace \o <<Call("os.path.exists", repo_paths[i]),
                           Call("os.path.isdir", repo_paths[i]),
                           Call("get_repo", repo_paths[i])>>}})

NoIndexer == [repo_paths |-> <<>>, repos |-> <<>>]

\* (C5) an index without repositories is refused by the constructor
EmptyCheckRaises(repos) == IF repos = <<>> THEN "ValueError" ELSE "none"

\* `if not self.repos:` after the loop only logs a warning
EmptyCheck(repos) == "none"

\* the constructor: the exception it raises, or the object it builds

GitHubRepoIndexer(repo_paths) ==
    Only({IF loop.raised # "none"
          THEN [raised |-> loop.raised, self |-> NoIndexer,
                trace |-> loop.trace]
          ELSE IF EmptyCheck(loop.repos) # "none"
          THEN [raised |-> EmptyCheck(loop.repos), self |-> NoIndexer,
                trace |-> loop.trace]
          ELSE [raised |-> "none",
                self |-> [repo_paths |-> repo_paths, repos |-> loop.repos],
                trace |-> loop.trace] :
          loop \in {IndexLoop(repo_paths, 1, <<>>, <<>>)}})

(***************************************************************************)
(* MCPGitHubServer.__init__                                                *)
(***************************************************************************)
StrName(v) == [t |-> "str", v |-> v]
DefaultName == StrName("ghmcp-server")
NameNone == [t |-> "NoneType", v |-> ""]
Names == {DefaultName, StrName("test-server"), StrName(""), NameNone}

\* the names start_server is called with by a caller: a name and the empty
\* string (main calls it with the default name); the empty string, which
\* is refused before the index is built, goes with the short lists
StartNames == {StrName("test-server"), StrName("")}

NoServer == [name |-> NameNone, indexer |-> NoIndexer]

MsgNoPaths == "At least one repository path must be provided"
MsgBadName == "Server name must be a non-empty string"
MsgNoRepos == "No valid Git repositories found in the provided paths"

\* (C13) the arguments are not validated
ValidateInputsNever(repo_paths, name) == ""

\* the validation of the arguments: the message of the ValueError it
\* raises, "" when it raises none
ValidateInputs(repo_paths, name) ==
    IF repo_paths = <<>> THEN MsgNoPaths
    ELSE IF name.v = "" \/ name.t # "str" THEN MsgBadName
    ELSE ""

\* trace: the calls made on the candidates; indexing: whether
\* GitHubRepoIndexer(repo_paths) was reached
MCPGitHubServer(repo_paths, name) ==
    IF ValidateInputs(repo_paths, name) # ""
    THEN [raised |-> "ValueError", msg |-> ValidateInputs(repo_paths, name),
          self |-> NoServer, trace |-> <<>>, indexing |-> FALSE]
    ELSE Only({IF ix.raised # "none"
               THEN [raised |-> ix.raised, msg |-> "", self |-> NoServer,
                     trace |-> ix.trace, indexing |-> TRUE]
               ELSE [raised |-> "none", msg |-> "",
                     self |-> [name |-> name, indexer |-> ix.self],
                     trace |-> ix.trace, indexing |-> TRUE] :
               ix \in {GitHubRepoIndexer(repo_paths)}})

(***************************************************************************)
(* The query of a server's index (listLibraries of the specification):     *)
(* one LibraryRecord per retained handle, in a list made for the call.     *)
(***************************************************************************)
basename(abs) == IF abs = <<>> THEN "" ELSE abs[Len(abs)]

LibraryRecord(repo) ==
    [name |-> basename(repo.working_dir), path |-> repo.working_dir,
     branches |-> repo.heads]

\* (C9) the query hands out the records and drops the first repository
\* from the index
query_libraries_popping(server) ==
    [raised |-> "none",
     libs |-> [k \in 1..Len(server.indexer.repos) |->
                  LibraryRecord(server.indexer.repos[k])],
     shared |-> FALSE,
     after |-> IF server.indexer.repos = <<>> THEN <<>>
               ELSE Tail(server.indexer.repos)]

\* (C14) the query refuses an index that holds no repository
query_libraries_guarded(server) ==
    [raised |-> IF server.indexer.repos = <<>> THEN "NotInitialized"
                ELSE "none",
     libs |-> [k \in 1..Len(server.indexer.repos) |->
                  LibraryRecord(server.indexer.repos[k])],
     shared |-> FALSE,
     after |-> server.indexer.repos]

\* (C10) the query hands out the index's own list
query_libraries_aliasing(server) ==
    [raised |-> "none",
     libs |-> [k \in 1..Len(server.indexer.repos) |->
                  LibraryRecord(server.indexer.repos[k])],
     shared |-> TRUE,
     after |-> server.indexer.repos]

\* libs: the list handed out; shared: whether it is the index's own list
\* object; after: the index's repository list when the call returns
query_libraries(server) ==
    [raised |-> "none",
     libs |-> [k \in 1..Len(server.indexer.repos) |->
                  LibraryRecord(server.indexer.repos[k])],
     shared |-> FALSE,
     after |-> server.indexer.repos]

(***************************************************************************)
(* main.start_server, main.stop_server, server.run_stdio_server            *)
(***************************************************************************)
\* (C18) only the interrupt signal gets the shutdown handler
SignalsInterruptOnly == {"SIGINT"}

\* the signals start_server registers _signal_handler for
Signals == {"SIGINT", "SIGTERM"}

\* (C7) the handler re-raises what it caught
StartExceptReraise(exc, msg) == [raised |-> exc, msg |-> <<msg>>]

\* the handler of start_server's try block
StartExcept(exc, msg) ==
    IF TryExceptException(exc) = "none"
    THEN [raised |-> "RuntimeError",
          msg |-> <<"Server startup failed: ", msg>>]
    ELSE [raised |-> exc, msg |-> <<msg>>]

\* (C4) the test of the list is inverted: `if libraries: raise`
StartValidateInverted(libs) == IF libs # <<>> THEN "ValueError" ELSE "none"

\* `if not libraries: raise ValueError(...)`
StartValidate(libs) == IF libs = <<>> THEN "ValueError" ELSE "none"

\* the server object once a query has run on it
Queried(server, libraries) ==
    [server EXCEPT !.indexer.repos = libraries.after]

\* the call as a whole: what it raises, the server object it made (made),
\* whether it wrote the global (registered), installed the signal handlers
\* (installed), and returned the server (returned)
StartAfterMade(made) ==
    IF made.raised # "none"
    THEN [out |-> StartExcept(made.raised, made.msg), made |-> FALSE,
          self |-> NoServer, registered |-> FALSE, installed |-> FALSE,
          returned |-> FALSE]
    ELSE Only({IF libraries.raised # "none"
               THEN [out |-> StartExcept(libraries.raised, ""), made |-> TRUE,
                     self |-> Queried(made.self, libraries), registered |-> TRUE,
                     installed |-> FALSE, returned |-> FALSE]
               ELSE IF StartValidate(libraries.libs) # "none"
               THEN [out |-> StartExcept(StartValidate(libraries.libs),
                                         MsgNoRepos),
                     made |-> TRUE, self |-> Queried(made.self, libraries),
                     registered |-> TRUE, installed |-> FALSE,
                     returned |-> FALSE]
               ELSE [out |-> [raised |-> "none", msg |-> <<>>], made |-> TRUE,
                     self |-> Queried(made.self, libraries), registered |-> TRUE,
                     installed |-> TRUE, returned |-> TRUE] :
               libraries \in {query_libraries(made.self)}})

start_server(repo_paths, name) ==
    Only({StartAfterMade(made) : made \in {MCPGitHubServer(repo_paths, name)}})

\* (C22) stop_server clears the global whichever server it is given
stop_server_clearing(server, instance) == 0

\* stop_server(server) with the global holding `instance`: the new global.
\* 0 stands for None, a positive number for the server object of that identity.
stop_server(server, instance) ==
    IF server = 0 THEN instance
    ELSE IF instance = server THEN 0 ELSE instance

\* (C11) stop_server releases the repositories of the server it stops
StoppedReleased(server) == [server EXCEPT !.indexer.repos = <<>>]

\* the server object after stop_server(server): the shutdown only logs and
\* clears the global reference
Stopped(server) == server

\* (C23) the handler exits without stopping the registered server
signal_handler_exit_only(instance) ==
    [stops |-> <<>>, instance |-> instance, exit |-> 0]

\* _signal_handler with the global holding `instance`: the stop_server
\* calls it makes, the new global, and the status it exits with
signal_handler(instance) ==
    [stops |-> IF instance # 0 THEN <<instance>> ELSE <<>>,
     instance |-> IF instance # 0 THEN stop_server(instance, instance)
                  ELSE instance,
     exit |-> 0]

\* the directories main() is run in: os.getcwd() is an absolute path
MainCwds == {PA, PBare, PDet, PFresh, PD, PPerm, PCorrupt}

\* (C16) main logs the failure of start_server and returns
MainExceptLogsOnly(exc) == <<>>

\* main's `except Exception as e: ... sys.exit(1)`: the sys.exit calls made
\* for an exception that reaches it
MainExcept(exc) == IF TryExceptException(exc) = "none" THEN <<1>> ELSE <<>>

\* (C17) the keep-alive loop is left without stopping the server
MainFinallyNothing(server) == <<>>

\* main's `finally: stop_server(server)`: the stop_server calls it makes
MainFinally(server) == <<server>>

\* MCPGitHubServer.get_capabilities: the keys of the dictionary it returns
get_capabilities(server) == {"experimental"}

\* MCPGitHubServer.run_stdio: what the transport does decides what it raises
StdioOutcomes == {"ok", "KeyboardInterrupt", "RuntimeError"}

run_stdio(transport) ==
    CASE transport = "ok"                -> "none"
      [] transport = "KeyboardInterrupt" -> "none"
      [] OTHER                           -> transport

\* (C8) the repositories are not validated before stdio mode starts
StdioValidateNever(repos) == "none"

\* `if not server.indexer.repos: raise ValueError(...)`
StdioValidate(repos) == IF repos = <<>> THEN "ValueError" ELSE "none"

\* stdio: the number of times run_stdio was entered
run_stdio_server(repo_paths, name, transport) ==
    Only({IF server.raised # "none"
          THEN [raised |-> server.raised, msg |-> server.msg, stdio |-> 0]
          ELSE IF StdioValidate(server.self.indexer.repos) # "none"
          THEN [raised |-> StdioValidate(server.self.indexer.repos),
                msg |-> MsgNoRepos, stdio |-> 0]
          ELSE [raised |-> run_stdio(transport), msg |-> "", stdio |-> 1] :
          server \in {MCPGitHubServer(repo_paths, name)}})

(***************************************************************************)
(* The caller of a query keeps the list it received and may change it.     *)
(***************************************************************************)
Mutations == {"append", "remove", "replace"}

JunkRecord == [name |-> "junk", path |-> <<"junk">>, branches |-> <<>>]
JunkRepo == [none |-> FALSE, working_dir |-> <<"junk">>, bare |-> FALSE,
             heads |-> <<>>]

\* list.append(junk), del list[0], list[0] = junk
Mutate(list, m, junk) ==
    CASE m = "append" -> Append(list, junk)
      [] m = "remove" -> Tail(list)
      [] OTHER        -> [list EXCEPT ![1] = junk]

\* the lists of at most MaxPaths candidates
PathLists(C) == UNION {[1..n -> C] : n \in 0..MaxPaths}

\* the path lists a long-lived server is started with: the sub-lists of
\* StartOrder that are at most MaxStartPaths long (the order of the entries
\* of a list is the constructors' business, and is varied there); the
\* second repository comes together with the first
StartOrder == <<PA, PC, PD, PNone>>

StartPos(p) == CHOOSE k \in 1..Len(StartOrder) : StartOrder[k] = p

StartPathLists ==
    {l \in PathLists({StartOrder[k] : k \in 1..Len(StartOrder)}) :
        /\ Len(l) <= MaxStartPaths
        /\ \A i, j \in 1..Len(l) : i < j => StartPos(l[i]) < StartPos(l[j])
        /\ (\E i \in 1..Len(l) : l[i] = PC) => l[1] = PA}

(***************************************************************************)
(* State.                                                                  *)
(*   servers          the MCPGitHubServer objects alive, by identity       *)
(*   server_instance  main._server_instance: 0 (None) or an identity       *)
(*   handlers         the signals _signal_handler is installed for         *)
(*   last             the last call: its arguments and what came back      *)
(*   held             the list a caller got from its last query            *)
(*   race             one probe taken statement by statement while the     *)
(*                    filesystem changes under it: what is at /r/a now     *)
(*                    (kind), whether the working directory /r is still    *)
(*                    there (cwd), the statement the probe is at (pc)      *)
(*   proc             the process: where main() is, the stop_server calls  *)
(*                    made since it was entered or by the signal handler,  *)
(*                    and the sys.exit calls                               *)
(***************************************************************************)
Blank ==
    [op |-> "none", paths |-> <<>>, name |-> NameNone, path |-> PNone,
     transport |-> "ok", raised |-> "none", msg |-> <<>>, repo |-> NoneRepo,
     indexer |-> NoIndexer, sid |-> 0, returned |-> FALSE, libs |-> <<>>,
     again |-> FALSE, stdio |-> 0, caps |-> {}, signum |-> "none",
     trace |-> <<>>, indexing |-> FALSE, before |-> 0]

NotHeld == [sid |-> 0, libs |-> <<>>, orig |-> <<>>, shared |-> FALSE,
            mutated |-> FALSE]

\* pc: "idle" (main is not running: the functions are called by a caller),
\* "loop" (main is in its keep-alive loop), "returned", "exited";
\* stopped: the servers stop_server has been called with, by anyone, kept
\* when the calls are audited (audit)
Running ==
    [pc |-> "idle", server |-> 0, stops |-> <<>>, exits |-> <<>>,
     audit |-> FALSE, stopped |-> {}]

\* no probe is under way
NoProbe ==
    [who |-> "none", path |-> PNone, kind |-> "missing", cwd |-> TRUE,
     pc |-> "idle", step |-> 0, abs |-> <<>>, passed |-> FALSE,
     opened |-> FALSE, raised |-> "none", ret |-> NoneRepo]

Init ==
    /\ servers = <<>>
    /\ server_instance = 0
    /\ handlers = {}
    /\ last = Blank
    /\ held = NotHeld
    /\ proc = Running
    /\ race = NoProbe

\* a caller probes one candidate
GetRepo ==
    /\ last.op = "none"
    /\ \E path \in Candidates :
           \E r \in {get_repo(path)} :
           /\ last' = [Blank EXCEPT !.op = "get_repo", !.path = path,
                                    !.raised = r.raised, !.repo = r.ret]
           /\ UNCHANGED <<servers, server_instance, handlers, held, proc, race>>

\* a caller constructs an index of its own
NewIndexer ==
    /\ last.op = "none"
    /\ \E repo_paths \in PathLists(Candidates) :
           \E r \in {GitHubRepoIndexer(repo_paths)} :
           /\ last' = [Blank EXCEPT !.op = "GitHubRepoIndexer",
                                    !.paths = repo_paths, !.raised = r.raised,
                                    !.indexer = r.self, !.trace = r.trace]
           /\ UNCHANGED <<servers, server_instance, handlers, held, proc, race>>

\* a caller constructs a server of its own and queries it
NewServer ==
    /\ last.op = "none"
    /\ \E repo_paths \in PathLists(ServerCandidates), name \in Names :
           \E r \in {MCPGitHubServer(repo_paths, name)} :
           /\ last' = [Blank EXCEPT !.op = "MCPGitHubServer",
                                    !.paths = repo_paths, !.name = name,
                                    !.raised = r.raised, !.msg = <<r.msg>>,
                                    !.indexer = r.self.indexer,
                                    !.trace = r.trace,
                                    !.indexing = r.indexing,
                                    !.libs = query_libraries(r.self).libs,
                                    !.returned = (r.raised = "none")]
           /\ UNCHANGED <<servers, server_instance, handlers, held, proc, race>>

Range(seq) == {seq[k] : k \in 1..Len(seq)}

\* the audit after stop_server was called with each server of `stops`
Audited(stops) ==
    IF proc.audit THEN proc.stopped \cup (Range(stops) \ {0})
    ELSE proc.stopped

StartServer ==
    /\ proc.pc = "idle"
    /\ \E repo_paths \in StartPathLists, name \in StartNames :
        \E r \in {start_server(repo_paths, name)} :
        /\ name = StrName("") => Len(repo_paths) <= 1
        /\ r.made => Len(servers) < MaxServers
        /\ servers' = IF r.made THEN Append(servers, r.self) ELSE servers
        /\ server_instance' =
              IF r.registered THEN Len(servers) + 1 ELSE server_instance
        /\ handlers' = IF r.installed THEN handlers \cup Signals ELSE handlers
        /\ last' = [Blank EXCEPT !.op = "start_server", !.paths = repo_paths,
                                 !.name = name, !.raised = r.out.raised,
                                 !.msg = r.out.msg,
                                 !.sid = IF r.made THEN Len(servers) + 1 ELSE 0,
                                 !.returned = r.returned]
        /\ UNCHANGED <<held, proc, race>>

StopServer ==
    /\ proc.pc = "idle"
    /\ \E server \in 0..Len(servers) :
        /\ server_instance' = stop_server(server, server_instance)
        /\ servers' = [k \in 1..Len(servers) |->
                          IF k = server THEN Stopped(servers[k])
                          ELSE servers[k]]
        /\ last' = [Blank EXCEPT !.op = "stop_server", !.sid = server,
                                 !.before = server_instance]
        /\ proc' = [proc EXCEPT !.stopped = Audited(<<server>>)]
        /\ UNCHANGED <<handlers, held, race>>

RunStdioServer ==
    /\ last.op = "none"
    /\ \E repo_paths \in PathLists(ServerCandidates), name \in Names,
          transport \in StdioOutcomes :
           \E r \in {run_stdio_server(repo_paths, name, transport)} :
           /\ last' = [Blank EXCEPT !.op = "run_stdio_server",
                                    !.paths = repo_paths, !.name = name,
                                    !.transport = transport,
                                    !.raised = r.raised, !.msg = <<r.msg>>,
                                    !.stdio = r.stdio]
           /\ UNCHANGED <<servers, server_instance, handlers, held, proc, race>>

\* a caller queries a server; the list goes to the caller that keeps one
\* (keep = FALSE) or to a caller that only reads it (keep = TRUE).
\* again: the call before this one was a query of the same server
Query ==
    /\ proc.pc = "idle"
    /\ \E sid \in 1..Len(servers), keep \in BOOLEAN :
        \E r \in {query_libraries(servers[sid])} :
        /\ keep => held.sid # 0
        /\ servers' = [servers EXCEPT ![sid] = Queried(@, r)]
        /\ last' = [Blank EXCEPT !.op = "query_libraries", !.sid = sid,
                                 !.raised = r.raised, !.libs = r.libs,
                                 !.again = (last.op = "query_libraries"
                                            /\ last.sid = sid)]
        /\ held' = IF keep THEN held
                   ELSE [sid |-> sid, libs |-> r.libs, orig |-> r.libs,
                         shared |-> r.shared, mutated |-> FALSE]
        /\ UNCHANGED <<server_instance, handlers, proc, race>>

\* the caller changes the list it holds; a list shared with the index is
\* the index's list, and changes with it
CallerMutates ==
    /\ proc.pc = "idle"
    /\ \E m \in Mutations :
        /\ held.sid # 0
        /\ ~held.mutated
        /\ m # "append" => held.libs # <<>>
        /\ held' = [held EXCEPT !.libs = Mutate(@, m, JunkRecord),
                                !.mutated = TRUE]
        /\ servers' =
              IF held.shared
              THEN [servers EXCEPT ![held.sid].indexer.repos =
                                        Mutate(@, m, JunkRepo)]
              ELSE servers
        /\ last' = [Blank EXCEPT !.op = "mutate", !.sid = held.sid]
        /\ UNCHANGED <<server_instance, handlers, proc, race>>

\* a client asks a server for its capabilities
GetCapabilities ==
    /\ proc.pc = "idle"
    /\ \E sid \in 1..Len(servers) :
        /\ last' = [Blank EXCEPT !.op = "get_capabilities", !.sid = sid,
                                 !.caps = get_capabilities(servers[sid])]
        /\ UNCHANGED <<servers, server_instance, handlers, held, proc, race>>

\* a caller runs a server it started on stdio, until the transport ends
RunStdio ==
    /\ proc.pc = "idle"
    /\ \E sid \in 1..Len(servers), transport \in StdioOutcomes :
        /\ last' = [Blank EXCEPT !.op = "run_stdio", !.sid = sid,
                                 !.transport = transport,
                                 !.raised = run_stdio(transport),
                                 !.stdio = 1]
        /\ UNCHANGED <<servers, server_instance, handlers, held, proc, race>>

\* the servers after stop_server was called on each server of `stops`
RECURSIVE StoppedAll(_, _)
StoppedAll(heap, stops) ==
    IF stops = <<>> THEN heap
    ELSE StoppedAll([k \in 1..Len(heap) |->
                        IF k = Head(stops) THEN Stopped(heap[k]) ELSE heap[k]],
                    Tail(stops))

\* the global after stop_server was called on each server of `stops`
RECURSIVE StopAll(_, _)
StopAll(stops, instance) ==
    IF stops = <<>> THEN instance
    ELSE StopAll(Tail(stops), stop_server(Head(stops), instance))

\* main() is entered in a new process, in the directory cwd: it starts a
\* server on [cwd] and enters its keep-alive loop, or calls sys.exit(1)
Main ==
    /\ last.op = "none"
    /\ proc.pc = "idle"
    /\ \E cwd \in MainCwds :
        \E r \in {start_server(<<cwd>>, DefaultName)} :
        /\ r.made => Len(servers) < MaxServers
        /\ servers' = IF r.made THEN Append(servers, r.self) ELSE servers
        /\ server_instance' =
              IF r.registered THEN Len(servers) + 1 ELSE server_instance
        /\ handlers' = IF r.installed THEN handlers \cup Signals ELSE handlers
        /\ proc' =
              IF r.out.raised = "none"
              THEN [proc EXCEPT !.pc = "loop", !.server = Len(servers) + 1]
              ELSE [proc EXCEPT
                      !.pc = IF MainExcept(r.out.raised) # <<>> THEN "exited"
                             ELSE "returned",
                      !.exits = proc.exits \o MainExcept(r.out.raised)]
        /\ last' = [Blank EXCEPT !.op = "main", !.paths = <<cwd>>,
                                 !.name = DefaultName,
                                 !.raised = r.out.raised, !.msg = r.out.msg,
                                 !.sid = IF r.made THEN Len(servers) + 1 ELSE 0,
                                 !.returned = r.returned]
        /\ UNCHANGED <<held, race>>

\* KeyboardInterrupt is raised in the keep-alive loop: main logs it, the
\* `finally` clause stops the server, and main returns
MainInterrupt ==
    /\ proc.pc = "loop"
    /\ \E stops \in {MainFinally(proc.server)} :
        /\ server_instance' = StopAll(stops, server_instance)
        /\ servers' = StoppedAll(servers, stops)
        /\ proc' = [proc EXCEPT !.pc = "returned",
                                !.stops = proc.stops \o stops,
                                !.stopped = Audited(stops)]
        /\ last' = [Blank EXCEPT !.op = "KeyboardInterrupt",
                                 !.sid = proc.server]
        /\ UNCHANGED <<handlers, held, race>>

\* a signal whose handler is _signal_handler arrives: the handler stops the
\* registered server and raises SystemExit(0); in main's keep-alive loop the
\* `finally` clause calls stop_server(server) on the way out
SignalHandler ==
    /\ proc.pc \in {"idle", "loop"}
    /\ \E signum \in handlers :
        \E h \in {signal_handler(server_instance)} :
        \E stops \in {h.stops \o (IF proc.pc = "loop"
                                   THEN MainFinally(proc.server) ELSE <<>>)} :
        /\ server_instance' = StopAll(stops, server_instance)
        /\ servers' = StoppedAll(servers, stops)
        /\ proc' = [proc EXCEPT !.pc = "exited",
                                !.stops = proc.stops \o stops,
                                !.stopped = Audited(stops),
                                !.exits = Append(proc.exits, h.exit)]
        /\ last' = [Blank EXCEPT !.op = "signal_handler", !.signum = signum,
                                 !.before = server_instance]
        /\ UNCHANGED <<handlers, held, race>>

\* the life of the process: servers are started, queried and stopped
Next ==
    \/ StartServer
    \/ StopServer
    \/ Query
    \/ CallerMutates
    \/ GetCapabilities
    \/ RunStdio
    \/ SignalHandler
    \/ Main
    \/ MainInterrupt

Spec == Init /\ [][Next]_vars

\* servers are started and stopped by a caller until a signal arrives, and
\* the stop_server calls are audited
InitShutdown ==
    /\ servers = <<>>
    /\ server_instance = 0
    /\ handlers = {}
    /\ last = Blank
    /\ held = NotHeld
    /\ proc = [Running EXCEPT !.audit = TRUE]
    /\ race = NoProbe

NextShutdown ==
    \/ StartServer
    \/ StopServer
    \/ SignalHandler

SpecShutdown == InitShutdown /\ [][NextShutdown]_vars

\* the calls that leave nothing behind: each is made once, on every argument
NextCalls ==
    \/ GetRepo
    \/ NewIndexer
    \/ NewServer
    \/ RunStdioServer

SpecCalls == Init /\ [][NextCalls]_vars

(***************************************************************************)
(* get_repo and the loop body of GitHubRepoIndexer.__init__, statement by  *)
(* statement, for one candidate, with the filesystem changing in between.  *)
(***************************************************************************)
\* the candidate: "/r/a", or "a" relative to the working directory /r
RacePaths == {PA, PARel}

\* what can be at /r/a
RaceKinds == {"repo", "bare", "dir", "file", "missing", "noperm", "corrupt"}

\* os.getcwd(): the exception it raises once the working directory of the
\* process has been removed
os_getcwd(alive) == IF alive THEN "none" ELSE "FileNotFoundError"

\* os.path.abspath(path): a relative path is joined to os.getcwd()
abspath_raises(path, alive) == IF path.abs THEN "none" ELSE os_getcwd(alive)

\* what a lookup of the candidate as given finds: a relative path is
\* resolved against the working directory of the process
Found(path, kind, alive) ==
    IF ~path.abs /\ ~alive THEN "missing" ELSE kind

lifecycle == <<servers, server_instance, handlers, last, held, proc>>

\* the probe is over: it raised exc, or returned repo
Finished(exc, repo) ==
    [race EXCEPT !.pc = "done", !.raised = exc, !.ret = repo]

InitRace ==
    /\ servers = <<>>
    /\ server_instance = 0
    /\ handlers = {}
    /\ last = Blank
    /\ held = NotHeld
    /\ proc = Running
    /\ race \in {[NoProbe EXCEPT !.who = w, !.path = p, !.kind = k,
                                 !.pc = IF w = "indexer" THEN "pre_exists"
                                        ELSE "abspath"] :
                    w \in {"get_repo", "indexer"}, p \in RacePaths,
                    k \in RaceKinds}

\* something else changes what is at /r/a
FsChange ==
    /\ race.pc \notin {"idle", "done"}
    /\ \E k \in RaceKinds \ {race.kind} :
           race' = [race EXCEPT !.kind = k]
    /\ UNCHANGED lifecycle

\* something else removes the working directory /r with all it holds
FsRemoveCwd ==
    /\ race.pc \notin {"idle", "done"}
    /\ race.cwd
    /\ race' = [race EXCEPT !.cwd = FALSE, !.kind = "missing"]
    /\ UNCHANGED lifecycle

\* GitHubRepoIndexer.__init__: `if not os.path.exists(path): continue`
PreExists ==
    /\ race.pc = "pre_exists"
    /\ race' = IF Found(race.path, race.kind, race.cwd) = "missing"
               THEN Finished("none", NoneRepo)
               ELSE [race EXCEPT !.pc = "pre_isdir"]
    /\ UNCHANGED lifecycle

\* GitHubRepoIndexer.__init__: `if not os.path.isdir(path): continue`
PreIsDir ==
    /\ race.pc = "pre_isdir"
    /\ race' = IF Found(race.path, race.kind, race.cwd) \in {"missing", "file"}
               THEN Finished("none", NoneRepo)
               ELSE [race EXCEPT !.pc = "abspath", !.passed = TRUE]
    /\ UNCHANGED lifecycle

\* get_repo: `abs_path = os.path.abspath(path)`, outside the try block
Abspath ==
    /\ race.pc = "abspath"
    /\ race' = IF abspath_raises(race.path, race.cwd) # "none"
               THEN Finished(abspath_raises(race.path, race.cwd), NoneRepo)
               ELSE [race EXCEPT !.pc = "exists", !.abs = abspath(race.path)]
    /\ UNCHANGED lifecycle

\* get_repo: `if not os.path.exists(abs_path): return None`
Exists ==
    /\ race.pc = "exists"
    /\ race' = IF race.kind = "missing" THEN Finished("none", NoneRepo)
               ELSE [race EXCEPT !.pc = "isdir"]
    /\ UNCHANGED lifecycle

\* get_repo: `if not os.path.isdir(abs_path): return None`
IsDir ==
    /\ race.pc = "isdir"
    /\ race' = IF race.kind \in {"missing", "file"}
               THEN Finished("none", NoneRepo)
               ELSE [race EXCEPT !.pc = "open", !.passed = TRUE]
    /\ UNCHANGED lifecycle

\* get_repo: `repo = Repo(abs_path)` inside the try block
Open ==
    /\ race.pc = "open"
    /\ \E r \in {RepoOfKind(race.kind, race.abs)} :
           race' = IF r.exc = "none"
                   THEN [race EXCEPT !.pc = "diag", !.step = 1,
                                     !.opened = TRUE, !.ret = r.repo]
                   ELSE Finished(OuterExcept(r.exc), NoneRepo)
    /\ UNCHANGED lifecycle

\* get_repo: one of the four diagnostic blocks, then `return repo`
Diagnose ==
    /\ race.pc = "diag"
    /\ \E e \in {TryExceptException(DiagOfKind(race.kind,
                                                DiagSteps[race.step]))} :
           race' = IF e # "none" THEN Finished(OuterExcept(e), NoneRepo)
                   ELSE IF race.step < Len(DiagSteps)
                   THEN [race EXCEPT !.step = race.step + 1]
                   ELSE Finished("none", race.ret)
    /\ UNCHANGED lifecycle

NextRace ==
    \/ FsChange
    \/ FsRemoveCwd
    \/ PreExists
    \/ PreIsDir
    \/ Abspath
    \/ Exists
    \/ IsDir
    \/ Open
    \/ Diagnose

SpecRace == InitRace /\ [][NextRace]_vars

(***************************************************************************)
(* What the claims speak of.                                               *)
(***************************************************************************)
\* the absolute paths at which a repository can be opened
RepoDirs ==
    {<<"r", "a">>, <<"r", "c">>, <<"r", "bare">>, <<"r", "det">>,
     <<"r", "link">>, <<"r", "new">>, <<"r", "n">>}

\* a valid repository path: a string that names one of them
ValidRepoPath(p) == p.t = "str" /\ p # PEmpty /\ abspath(p) \in RepoDirs

ValidAt(paths) == {i \in 1..Len(paths) : ValidRepoPath(paths[i])}

IndexBuilt == last.op = "GitHubRepoIndexer" /\ last.raised = "none"

(***************************************************************************)
(* C1.  Order preservation: the repositories an index retains are the      *)
(* successfully probed paths of its input, in the order of the input: the  *)
(* k-th retained handle is the handle of the k-th valid path, nothing      *)
(* stands in for an invalid entry, and no valid entry is left out.         *)
(***************************************************************************)
C1_OrderPreserved ==
    IndexBuilt =>
        \E f \in [1..Len(last.indexer.repos) -> 1..Len(last.paths)] :
            /\ \A j, k \in DOMAIN f : j < k => f[j] < f[k]
            /\ \A k \in DOMAIN f :
                  /\ ValidRepoPath(last.paths[f[k]])
                  /\ ~last.indexer.repos[k].none
                  /\ last.indexer.repos[k].working_dir = abspath(last.paths[f[k]])
            /\ ValidAt(last.paths) = {f[k] : k \in DOMAIN f}

\* [A(valid), B(invalid), C(valid)] was indexed as [A, C]
C1_Witness ==
    /\ IndexBuilt
    /\ last.paths = <<PA, PD, PC>>
    /\ Len(last.indexer.repos) = 2
    /\ last.indexer.repos[1].working_dir = <<"r", "a">>
    /\ last.indexer.repos[2].working_dir = <<"r", "c">>

(***************************************************************************)
(* C2.  Count property.  As claimed: an index built from a list with at    *)
(* least one valid repository holds exactly one record per valid           *)
(* repository (also when a valid path occurs more than once) and none for  *)
(* an invalid one.                                                         *)
(***************************************************************************)
Retained(d) == {k \in 1..Len(last.indexer.repos) :
                   last.indexer.repos[k].working_dir = d}

Listed(d) == {i \in 1..Len(last.paths) :
                 last.paths[i].t = "str" /\ last.paths[i] # PEmpty
                 /\ abspath(last.paths[i]) = d}

Dirs == {abspath(p) : p \in {q \in Candidates : q.t = "str"}} \cup {<<"junk">>}

C2_OnePerRepository ==
    (IndexBuilt /\ ValidAt(last.paths) # {}) =>
        \A d \in Dirs :
            Cardinality(Retained(d)) =
                IF d \in RepoDirs /\ Listed(d) # {} THEN 1 ELSE 0

\* C2 as amended: one record per occurrence of a valid path in the list (a
\* repository listed n times is retained n times), none for an invalid one
C2_OnePerValidEntry ==
    (IndexBuilt /\ ValidAt(last.paths) # {}) =>
        /\ Len(last.indexer.repos) = Cardinality(ValidAt(last.paths))
        /\ \A d \in Dirs :
              Cardinality(Retained(d)) =
                  IF d \in RepoDirs THEN Cardinality(Listed(d)) ELSE 0

\* the same repository listed twice, next to an invalid path
C2_Witness ==
    /\ IndexBuilt
    /\ last.paths = <<PA, PD, PASlash>>
    /\ Len(last.indexer.repos) = 2

GoodName(name) == name.t = "str" /\ name.v # ""

Started ==
    /\ last.raised = "none"
    /\ last.returned
    /\ last.sid = Len(servers)
    /\ server_instance = last.sid
    /\ servers[last.sid].name = last.name
    /\ Len(servers[last.sid].indexer.repos) = Cardinality(ValidAt(last.paths))

C4_StartSucceeds ==
    (last.op = "start_server" /\ ValidAt(last.paths) # {}) => Started

AllStrings(paths) == \A i \in 1..Len(paths) : paths[i].t = "str"

HasNone(paths) == \E i \in 1..Len(paths) : paths[i] = PNone

\* C4 as amended: start_server succeeds whenever at least one supplied path
\* is a valid repository, every supplied path is a string and the name is a
\* non-empty string; with an empty name, or with None among the paths, it
\* raises RuntimeError although a supplied path is a valid repository
C4_StartSucceedsNamed ==
    /\ (last.op = "start_server" /\ ValidAt(last.paths) # {}
        /\ AllStrings(last.paths) /\ GoodName(last.name)) => Started
    /\ (last.op = "start_server" /\ ValidAt(last.paths) # {}
        /\ (HasNone(last.paths) \/ ~GoodName(last.name))) =>
           /\ last.raised = "RuntimeError"
           /\ ~last.returned

\* a server named "test-server" was started on a valid and an invalid path
C4_Witness ==
    /\ last.op = "start_server"
    /\ last.paths = <<PA, PD>>
    /\ last.name = StrName("test-server")
    /\ last.returned
    /\ servers[last.sid].name.v = "test-server"
    /\ Len(servers[last.sid].indexer.repos) = 1

(***************************************************************************)
(* C5.  As claimed: constructing an index from paths that are all invalid, *)
(* or from an empty list, fails; no index without repositories is built.   *)
(***************************************************************************)
C5_EmptyIndexFails ==
    (last.op = "GitHubRepoIndexer" /\ ValidAt(last.paths) = {}) =>
        last.raised # "none"

\* C5 as amended: from an empty list, or from strings that are all invalid,
\* the index is built, with zero repositories and the paths it was given
\* (None among the paths makes the construction raise TypeError); it is
\* run_stdio_server, which constructs the index at start-up, that fails
\* when no path is valid, before stdio mode is entered: with a ValueError,
\* or with that TypeError
C5_EmptyIndexAtStartup ==
    /\ (last.op = "GitHubRepoIndexer" /\ ValidAt(last.paths) = {}) =>
           IF HasNone(last.paths)
           THEN last.raised = "TypeError"
           ELSE /\ last.raised = "none"
                /\ last.indexer.repos = <<>>
                /\ last.indexer.repo_paths = last.paths
    /\ (last.op = "run_stdio_server" /\ ValidAt(last.paths) = {}) =>
           /\ last.raised =
                 IF HasNone(last.paths) /\ GoodName(last.name)
                 THEN "TypeError" ELSE "ValueError"
           /\ last.stdio = 0

\* an index was built from a missing path and a file, and holds nothing
C5_Witness ==
    /\ last.op = "GitHubRepoIndexer"
    /\ last.paths = <<PMissing, PFile>>
    /\ last.raised = "none"
    /\ last.indexer.repos = <<>>

(***************************************************************************)
(* C6.  As claimed: start_server raises ValueError, "No valid Git          *)
(* repositories found in the provided paths", when no path is valid.       *)
(***************************************************************************)
C6_RaisesValueError ==
    (last.op = "start_server" /\ ValidAt(last.paths) = {}) =>
        /\ last.raised = "ValueError"
        /\ last.msg = <<MsgNoRepos>>

C8_StdioValueError ==
    last.op = "run_stdio_server" =>
        /\ ValidAt(last.paths) = {} =>
              /\ last.raised = "ValueError"
              /\ last.msg = <<MsgNoRepos>>
              /\ last.stdio = 0
        /\ ValidAt(last.paths) # {} => last.stdio = 1

\* what run_stdio_server raises before stdio mode, by the order of the
\* validations: the empty list, the name, None among the paths, no
\* repository
StdioRefusal(paths, name) ==
    IF paths = <<>> THEN [raised |-> "ValueError", msg |-> MsgNoPaths]
    ELSE IF ~GoodName(name) THEN [raised |-> "ValueError", msg |-> MsgBadName]
    ELSE IF HasNone(paths) THEN [raised |-> "TypeError", msg |-> ""]
    ELSE IF ValidAt(paths) = {}
    THEN [raised |-> "ValueError", msg |-> MsgNoRepos]
    ELSE [raised |-> "none", msg |-> ""]

\* C8 as amended: run_stdio_server raises ValueError, unwrapped, and never
\* enters run_stdio, for an empty list, for an empty or non-string name,
\* and, with that message, when no path of a list of strings is a valid
\* repository; None among the paths makes it raise TypeError; in every
\* other case run_stdio is entered exactly once
C8_StdioGuarded ==
    last.op = "run_stdio_server" =>
        IF StdioRefusal(last.paths, last.name).raised # "none"
        THEN /\ last.raised = StdioRefusal(last.paths, last.name).raised
             /\ last.msg = <<StdioRefusal(last.paths, last.name).msg>>
             /\ last.stdio = 0
        ELSE last.stdio = 1

\* run_stdio_server on a directory that is no repository
C8_Witness ==
    /\ last.op = "run_stdio_server"
    /\ last.paths = <<PD>>
    /\ last.name = DefaultName
    /\ last.raised = "ValueError"
    /\ last.msg = <<MsgNoRepos>>
    /\ last.stdio = 0

C11_WriteOnce ==
    [][\A k \in 1..Len(servers) :
          /\ k <= Len(servers')
          /\ servers'[k].indexer.repos = servers[k].indexer.repos]_vars

\* a server with two repositories was queried, the caller changed the list
\* it got, and the server was then stopped
C11_Witness ==
    /\ last.op = "stop_server"
    /\ last.sid # 0
    /\ held.sid = last.sid
    /\ held.mutated
    /\ Len(servers[last.sid].indexer.repos) = 2

(***************************************************************************)
(* C12.  As claimed: for every list of candidates, also with candidates    *)
(* that are missing, files, directories without a repository, empty or of  *)
(* the wrong type such as None, the construction of GitHubRepoIndexer      *)
(* completes without raising, keeps exactly the valid candidates and       *)
(* leaves repo_paths equal to the list it was given.                       *)
(***************************************************************************)
C12_InvalidRecovered ==
    last.op = "GitHubRepoIndexer" =>
        /\ last.raised = "none"
        /\ last.indexer.repo_paths = last.paths
        /\ Len(last.indexer.repos) = Cardinality(ValidAt(last.paths))

(***************************************************************************)
(* C13.  As claimed: MCPGitHubServer validates its arguments before any    *)
(* probing: with an empty path list it raises ValueError "At least one     *)
(* repository path must be provided", with an empty or non-string name it  *)
(* raises ValueError "Server name must be a non-empty string"; in both     *)
(* cases no path is probed and no indexer is created.                      *)
(***************************************************************************)
Refused(msg) ==
    /\ last.raised = "ValueError"
    /\ last.msg = <<msg>>
    /\ last.trace = <<>>
    /\ ~last.indexing
    /\ last.indexer = NoIndexer
    /\ ~last.returned

C13_ValidatesFirst ==
    last.op = "MCPGitHubServer" =>
        /\ last.paths = <<>> => Refused(MsgNoPaths)
        /\ ~GoodName(last.name) => Refused(MsgBadName)

\* C13 as amended: the path list is validated first, so the message about
\* the name is the one raised for a bad name with a path list that is not
\* empty
C13_ValidatesInOrder ==
    last.op = "MCPGitHubServer" =>
        /\ last.paths = <<>> => Refused(MsgNoPaths)
        /\ (last.paths # <<>> /\ ~GoodName(last.name)) => Refused(MsgBadName)

\* a server was asked for with a valid repository and the name ""
C13_Witness ==
    /\ last.op = "MCPGitHubServer"
    /\ last.paths = <<PA>>
    /\ last.name = StrName("")
    /\ last.raised = "ValueError"
    /\ last.msg = <<MsgBadName>>
    /\ last.trace = <<>>

Constructed(server) ==
    /\ GoodName(server.name)
    /\ server.indexer.repo_paths # <<>>
    /\ Len(server.indexer.repos) = Cardinality(ValidAt(server.indexer.repo_paths))

C15_NameOfCanonicalPath ==
    (last.op = "MCPGitHubServer" /\ last.raised = "none") =>
        LET valid == SelectSeq(last.paths, ValidRepoPath) IN
        /\ Len(last.libs) = Len(valid)
        /\ \A k \in 1..Len(last.libs) :
              /\ last.libs[k].path = realpath(abspath(valid[k]))
              /\ last.libs[k].name = basename(realpath(abspath(valid[k])))

\* C16: whenever start_server raises in main, main calls sys.exit once, with
\* status 1, and does not call stop_server.
C16_MainExitsOne ==
    (last.op = "main" /\ last.raised # "none") =>
        /\ proc.pc = "exited"
        /\ proc.exits = <<1>>
        /\ proc.stops = <<>>

\* main was run in a directory that is not a repository
C16_Witness ==
    /\ last.op = "main"
    /\ last.paths = <<PD>>
    /\ last.raised = "RuntimeError"
    /\ proc.exits = <<1>>

\* C17: when main has returned after a KeyboardInterrupt in its keep-alive
\* loop, stop_server was called exactly once, with the server start_server
\* returned, and sys.exit was not called.
C17_InterruptStopsOnce ==
    (last.op = "KeyboardInterrupt") =>
        /\ proc.pc = "returned"
        /\ proc.server \in 1..Len(servers)
        /\ Len(servers[proc.server].indexer.repos) > 0
        /\ proc.stops = <<proc.server>>
        /\ proc.exits = <<>>

\* main was started in a repository and interrupted in its loop
C17_Witness ==
    /\ last.op = "KeyboardInterrupt"
    /\ proc.pc = "returned"
    /\ proc.stops = <<1>>

\* C18: a call of start_server that succeeds leaves the shutdown handler
\* installed for both SIGINT and SIGTERM and returns a server whose index is
\* not empty; a call that fails leaves the installed handlers as they were.
C18_HandlersOnSuccessOnly ==
    [][last'.op \in {"start_server", "main"} =>
          IF last'.raised = "none"
          THEN /\ {"SIGINT", "SIGTERM"} \subseteq handlers'
               /\ last'.sid \in 1..Len(servers')
               /\ Len(servers'[last'.sid].indexer.repos) > 0
          ELSE handlers' = handlers]_vars

\* start_server succeeded and both handlers are installed
C18_Witness ==
    /\ last.op = "start_server"
    /\ last.raised = "none"
    /\ last.returned
    /\ handlers = {"SIGINT", "SIGTERM"}

\* the candidate exists and is a directory
ExistsAndIsDir(path) ==
    /\ os_path_exists(path).exc = "none"
    /\ os_path_exists(path).val
    /\ os_path_isdir(path)

IsGetRepoCall(call) == call.f = "get_repo"

\* the get_repo calls the claim asks for: one per candidate that exists and
\* is a directory, with the path as given, in input order
ExpectedProbes(repo_paths) ==
    [k \in 1..Len(SelectSeq(repo_paths, ExistsAndIsDir)) |->
        Call("get_repo", SelectSeq(repo_paths, ExistsAndIsDir)[k])]

\* C19: the get_repo calls of an index construction are exactly one call per
\* candidate that exists and is a directory, with the path as given, in
\* input order, and none for any other candidate.
C19_ProbedOnceInOrder ==
    (last.op = "GitHubRepoIndexer") =>
        SelectSeq(last.trace, IsGetRepoCall) = ExpectedProbes(last.paths)

\* the candidate is one that get_repo opens: Repo(abs_path) succeeds
Opens(path) ==
    /\ path.t = "str"
    /\ ~Falsy(path)
    /\ exists(abspath(path))
    /\ isdir(abspath(path))
    /\ Repo(abspath(path)).exc = "none"

\* one of the diagnostic reads fails, or the repository is bare
DiagnosticsFail(path) ==
    \/ \E k \in 1..Len(DiagSteps) : Diag(abspath(path), DiagSteps[k]) # "none"
    \/ Repo(abspath(path)).repo.bare

\* C20: when the repository was opened, get_repo returns the handle, whatever
\* the reads of the active branch, the remotes, the branches and the commits
\* raise, and also for a bare repository; the result is never None.
C20_HandleSurvivesDiagnostics ==
    (last.op = "get_repo" /\ Opens(last.path)) =>
        /\ last.raised = "none"
        /\ ~last.repo.none
        /\ last.repo = Repo(abspath(last.path)).repo

\* a repository with a detached HEAD was probed and its handle returned
C20_Witness ==
    /\ last.op = "get_repo"
    /\ last.path = PDet
    /\ Opens(last.path)
    /\ DiagnosticsFail(last.path)
    /\ ~last.repo.none

\* the candidate passed the checks that come before the open (for the
\* indexer: its own checks before get_repo) and no repository was opened
LostBeforeOpen == race.pc = "done" /\ race.passed /\ ~race.opened

\* C21: in every interleaving of the probe's statements with changes of the
\* filesystem, a candidate that passed the exists and is-directory checks
\* (get_repo's own, or the indexer's before it calls get_repo) and is gone or
\* no repository when it is opened gives None and no exception.
C21_RaceSafe ==
    LostBeforeOpen => (race.raised = "none" /\ race.ret.none)

\* C22: stop_server(server) sets the global to None when server is the
\* registered instance; called with None or another server it leaves the
\* global as it was; it raises nothing and changes no server's index.
C22_StopClearsOwnOnly ==
    [][last'.op = "stop_server" =>
          /\ server_instance' =
                IF last'.sid # 0 /\ server_instance = last'.sid THEN 0
                ELSE server_instance
          /\ last'.raised = "none"
          /\ Len(servers') = Len(servers)
          /\ \A k \in 1..Len(servers) :
                 servers'[k].indexer = servers[k].indexer]_vars

\* two servers exist, the second is registered and was stopped
C22_Witness ==
    /\ last.op = "stop_server"
    /\ Len(servers) = 2
    /\ last.sid = 2
    /\ last.before = 2
    /\ server_instance = 0
    /\ servers[2].indexer.repos # <<>>

\* C23: a run of the signal handler ends the process with status 0; the
\* server registered at that moment is passed to stop_server first, and the
\* global is None when the process exits.
C23_HandlerStopsAndExits ==
    [][last'.op = "signal_handler" =>
          /\ proc'.pc = "exited"
          /\ proc'.exits = Append(proc.exits, 0)
          /\ server_instance' = 0
          /\ server_instance # 0 =>
                /\ Len(proc'.stops) > Len(proc.stops)
                /\ proc'.stops[Len(proc.stops) + 1] = server_instance]_vars

\* the handler ran while a server was registered
C23_Witness ==
    /\ last.op = "signal_handler"
    /\ last.before # 0
    /\ proc.stops = <<last.before>>
    /\ proc.exits = <<0>>
    /\ server_instance = 0

\* C24: a call of start_server that raises leaves the global as it was, and
\* the global is at all times None or a server that start_server returned
\* (a registered server has not been stopped: stop_server unregisters it).
C24_FailedStartKeepsGlobal ==
    /\ [][(last'.op \in {"start_server", "main"} /\ last'.raised # "none")
            => server_instance' = server_instance]_vars
    /\ [](server_instance # 0 =>
             servers[server_instance].indexer.repos # <<>>)

\* the server was returned by start_server: only a server whose index holds
\* a repository is
WasReturned(k) == servers[k].indexer.repos # <<>>

\* C25: when the signal handler runs, every server that start_server
\* returned and that has not been passed to stop_server is stopped by it.
C25_HandlerStopsAll ==
    [][last'.op = "signal_handler" =>
          \A k \in 1..Len(servers) :
             (WasReturned(k) /\ k \notin proc.stopped) =>
                 k \in proc'.stopped]_vars

====
